---------------------------- MODULE Spec2Model ----------------------------
(***************************************************************************)
(* Session membership service of the OneWise backend                       *)
(* (src/src/services/session.ts) over its relational store, with the       *)
(* role gates of the HTTP routes (src/src/routes/sessions.ts).             *)
(*                                                                         *)
(* Every service function is a sequence of store accesses separated by     *)
(* awaits.  One action of the model is one store access together with the  *)
(* local code that follows it up to the next access (JavaScript runs that  *)
(* code without interruption); the calls of different requests interleave  *)
(* between actions.  Every store access may also be answered with an       *)
(* error, which the code turns into a 500.                                 *)
(*                                                                         *)
(* Two specifications share the actions.  Spec has NumProcs requests in    *)
(* flight at once and draws the patches of the two update operations from  *)
(* a few representatives; SpecSeq serves one request at a time and draws   *)
(* every patch.                                                            *)
(*                                                                         *)
(* The socket gateway (src/unnamed/part_000, the server's index.ts) is     *)
(* modelled by the same rule: one action is one await of a handler with    *)
(* the local code after it.  SpecGw runs the gateway over a store that     *)
(* holds MaxRooms sessions created by u1, next to the kick of the HTTP     *)
(* surface; SpecGwLive adds the fairness of the awaited calls.             *)
(***************************************************************************)
EXTENDS Integers, Sequences, FiniteSets, TLC

(* ------------------------------ bounds -------------------------------- *)

\* number of requests that may be in flight at the same time
NumProcs == 2
\* number of session rows the store ever creates (ids are never reused)
MaxSessions == 1
\* largest value of the wall clock read by kickParticipant
MaxClock == 2
\* longest participantUserIds list given to createSession
MaxStudentIds == 2
\* number of socket connections
NumConns == 2
\* number of sessions in the store under the gateway specifications
MaxRooms == 2
\* number of message and snapshot rows the gateway stores
MaxStored == 1
\* number of temporary directories that may exist at the same time
MaxDirs == 2

Procs == 1..NumProcs
Conns == 1..NumConns
Dirs == 1..MaxDirs
\* an invite code is the store-generated unique token of a session: the
\* code of session i is i, and MaxSessions + 1 is the code of no session
Codes == 1..(MaxSessions + 1)

Users == {"u1", "u2"}

\* the role claim a request carries (req.user.role, socket.data.user.role)
Roles == {"mentor", "student"}

Statuses == {"scheduled", "live", "completed", "cancelled"}

(* ------------------------------- state -------------------------------- *)

VARIABLES
    sessions,       \* table mentorship_sessions: id -> sequence of rows (0 or 1)
    participants,   \* table session_participants: id -> user -> sequence of rows
    nextId,         \* next id the store gives to an inserted session
    flagDefault,    \* column default of can_edit and can_share_screen
    clock,          \* wall clock (new Date())
    wide,           \* FALSE: concurrent requests; TRUE: one at a time, every patch
    pc,             \* per request: position in its service function
    call,           \* per request: operation, arguments, locals, result
    messages,       \* tables session_messages and session_code_snapshots
    conns,          \* per socket: status, user, data.sessionId, rooms
    hpc,            \* per socket: position of its event handler in flight
    req,            \* per socket: the event handled, its locals and outputs
    tmp,            \* the temporary directories of executeCode that exist
    stepwise        \* TRUE: executeCode is followed await by await; FALSE:
                    \* it is one call that returns

\* the state of the code runner
runner == <<tmp, stepwise>>

\* the state of the socket gateway
gw == <<messages, conns, hpc, req, runner>>

vars == <<sessions, participants, nextId, flagDefault, clock, wide, pc, call,
          gw>>

\* the ids the store may hold a session row for
SessIds == DOMAIN sessions

\* op, arguments (user, role, sess, code, target, patch; roles: the role
\* sources of the user that authenticate resolves), locals (students,
\* owner), the result (ok or the HttpError status), and what the call did
\* to the store: touched counts its store accesses, changed tells whether
\* one of them changed a row, err is the kind of the last store error
NoCall ==
    [op |-> "none", user |-> "", role |-> "", sess |-> 0, code |-> 0,
     target |-> "", patch |-> <<>>, students |-> {}, owner |-> "",
     result |-> "", touched |-> 0, changed |-> FALSE, err |-> "none",
     roles |-> <<>>]

InitStore ==
    /\ sessions = [s \in 1..MaxSessions |-> <<>>]
    /\ participants = [s \in 1..MaxSessions |-> [u \in Users |-> <<>>]]
    /\ nextId = 1
    /\ flagDefault \in BOOLEAN
    /\ clock = 1
    /\ pc = [p \in Procs |-> "idle"]
    /\ call = [p \in Procs |-> NoCall]

\* a socket before its handshake.  Of a rejected handshake the record
\* keeps the token, the answer of the identity provider and the error
NoConn ==
    [status |-> "new", user |-> "", sessionId |-> 0, rooms |-> {},
     token |-> {}, answer |-> "", reason |-> ""]

\* one call of executeCode: the lower-cased language and the executor it
\* is dispatched to, the directory it made (0: none), its child process
\* (none, running, exited, killed) and the number of children it spawned,
\* whether javac succeeded, how the last child ended (exit), the file
\* system call that failed (fault), whether the call has returned, and
\* the ExecutionResult: output, and error as a set ({}: null)
NoRun ==
    [language |-> "", executor |-> "", dir |-> 0, child |-> "none",
     spawned |-> 0, compiled |-> FALSE, exit |-> "", fault |-> "",
     returned |-> FALSE, output |-> "", error |-> {}]

\* the event a handler serves (ev), its locals (sess: the session id it
\* read, target, patch), and what it has put out: the acknowledgment
\* (acks: number of calls of the callback, ack: "ok" or "fail", result: ok
\* or the status of the error), the sockets sent session:error and
\* session:joined, the event sent to a room (cast), the participant row it
\* carries (payload) and the sockets it was delivered to (to), and whether
\* it wrote a message or snapshot row
NoReq ==
    [ev |-> "", sess |-> 0, target |-> "", patch |-> <<>>, result |-> "",
     acks |-> 0, ack |-> "", error |-> {}, joined |-> {}, cast |-> "",
     payload |-> <<>>, to |-> {}, wrote |-> FALSE, run |-> NoRun]

\* no socket has connected
InitGateway ==
    /\ messages = {}
    /\ conns = [c \in Conns |-> NoConn]
    /\ hpc = [c \in Conns |-> "idle"]
    /\ req = [c \in Conns |-> NoReq]
    /\ tmp = {}
    /\ stepwise = FALSE

Init == InitStore /\ InitGateway /\ wide = FALSE

InitSeq == InitStore /\ InitGateway /\ wide = TRUE

(* --------------------------- store queries ---------------------------- *)

\* the answer of a store access that failed
StoreError == [error |-> TRUE, data |-> <<>>]

\* .maybeSingle(): no row -> data null; one row -> the row; more -> error
MaybeSingle(rows) ==
    IF Len(rows) > 1 THEN StoreError
    ELSE [error |-> FALSE, data |-> rows]

\* select ... from session_participants where session_id = s and user_id = u
SelectParticipant(s, u) ==
    IF s \in SessIds THEN MaybeSingle(participants[s][u])
    ELSE [error |-> FALSE, data |-> <<>>]

\* select ... from mentorship_sessions where id = s
SelectSession(s) ==
    IF s \in SessIds THEN MaybeSingle(sessions[s])
    ELSE [error |-> FALSE, data |-> <<>>]

\* select ... from mentorship_sessions where invite_code = c
SelectSessionByCode(c) == SelectSession(c)

\* the store keeps (session_id, user_id) unique: an insert of a pair that
\* has a row is refused
DuplicatePair(s, us) == \E u \in us : participants[s][u] # <<>>

\* the store keeps session_id a reference: an insert for a session that has
\* no row is refused
MissingSession(s) == sessions[s] = <<>>

\* the error of an insert into session_participants, "none" if it is done
InsertError(s, us, answered) ==
    IF ~answered THEN "store"
    ELSE IF MissingSession(s) THEN "fk"
    ELSE IF DuplicatePair(s, us) THEN "conflict"
    ELSE "none"

\* a row of an insert into session_participants that supplies no flags:
\* they take the column default
NewParticipant(role) ==
    [role |-> role, kicked_at |-> 0,
     can_edit |-> flagDefault, can_share_screen |-> flagDefault]

(* ------------------------------ requests ------------------------------ *)

\* a finished request is answered before anything else happens: answering
\* touches no shared state, so this leaves out no behaviour of the store
NoneDone ==
    /\ \A p \in Procs : pc[p] # "done"
    /\ \A c \in Conns : hpc[c] # "done" /\ conns[c].status # "rejected"

\* a request may start; under SpecSeq only when no other is in flight
MayStart(p) ==
    /\ NoneDone
    /\ pc[p] = "idle"
    /\ wide => (p = 1 /\ \A q \in Procs : pc[q] = "idle")

Access(c, answered, changed) ==
    [c EXCEPT !.touched = @ + 1,
              !.changed = @ \/ changed,
              !.err = IF answered THEN "none" ELSE "store"]

Finish(p, c, result) ==
    /\ pc' = [pc EXCEPT ![p] = "done"]
    /\ call' = [call EXCEPT ![p] = [c EXCEPT !.result = result]]

Goto(p, c, label) ==
    /\ pc' = [pc EXCEPT ![p] = label]
    /\ call' = [call EXCEPT ![p] = c]

Return(p) ==
    /\ pc[p] = "done"
    /\ pc' = [pc EXCEPT ![p] = "idle"]
    /\ call' = [call EXCEPT ![p] = NoCall]
    /\ UNCHANGED <<sessions, participants, nextId, flagDefault, clock, wide,
                   gw>>

(* ----------------------- ensureSessionParticipant --------------------- *)

\* as EnsureOutcome, with a missing row taken as a participant
EnsureOutcomeNoRowPasses(res) ==
    IF res.error THEN "500"
    ELSE IF res.data = <<>> THEN "ok"
    ELSE IF res.data[1].kicked_at # 0 THEN "403"
    ELSE "ok"

\* as EnsureOutcome, without the check of kicked_at
EnsureOutcomeKickedPasses(res) ==
    IF res.error THEN "500"
    ELSE IF res.data = <<>> THEN "403"
    ELSE "ok"

EnsureOutcome(res) ==
    IF res.error THEN "500"
    ELSE IF res.data = <<>> THEN "403"
    ELSE IF res.data[1].kicked_at # 0 THEN "403"
    ELSE "ok"

EnsureSessionParticipant(p) ==
    /\ MayStart(p)
    /\ \E u \in Users, s \in SessIds, answered \in BOOLEAN :
         LET c == [NoCall EXCEPT !.op = "ensureParticipant", !.user = u,
                                 !.sess = s]
             res == IF answered THEN SelectParticipant(s, u) ELSE StoreError
         IN  Finish(p, Access(c, answered, FALSE), EnsureOutcome(res))
    /\ UNCHANGED <<sessions, participants, nextId, flagDefault, clock, wide,
                   gw>>

(* ----------------------------- createSession -------------------------- *)

\* Array.from(new Set(ids.filter((id) => id && id !== mentorId)))
UniqueStudentIds(mentorId, ids) ==
    {ids[i] : i \in DOMAIN ids} \ {"", mentorId}

\* participantUserIds: any list, with duplicates, the owner, empty strings
StudentIdLists ==
    UNION {[1..n -> Users \cup {""}] : n \in 0..MaxStudentIds}

\* the session row of the insert: input.allow_chat ?? true, created_by
NewSession(mentorId, allow_chat) ==
    [created_by |-> mentorId, status |-> "scheduled",
     allow_chat |-> IF allow_chat = {} THEN TRUE
                    ELSE CHOOSE v \in allow_chat : TRUE]

\* an optional argument is the empty set (undefined) or a singleton
Optional(S) == {{}} \cup {{v} : v \in S}

\* POST /api/sessions: the route admits role mentor only; the first store
\* access inserts the session row
CreateInsertSession(p) ==
    /\ MayStart(p)
    /\ nextId <= MaxSessions
    /\ \E m \in Users, ids \in StudentIdLists,
          chat \in (IF wide THEN Optional(BOOLEAN) ELSE {{}}),
          answered \in BOOLEAN :
         LET c == [NoCall EXCEPT !.op = "createSession", !.user = m,
                                 !.role = "mentor"]
         IN  IF answered
             THEN /\ sessions' = [sessions EXCEPT ![nextId] =
                                     <<NewSession(m, chat)>>]
                  /\ nextId' = nextId + 1
                  /\ Goto(p, [Access(c, TRUE, TRUE) EXCEPT
                                 !.sess = nextId,
                                 !.students = UniqueStudentIds(m, ids)],
                          "cs_participants")
             ELSE /\ Finish(p, Access(c, FALSE, FALSE), "500")
                  /\ UNCHANGED <<sessions, nextId>>
    /\ UNCHANGED <<participants, flagDefault, clock, wide, gw>>

\* the rows of the one insert into session_participants
CreateParticipantRows(sessionId, mentorId, students) ==
    [u \in {mentorId} \cup students |->
        IF u = mentorId
        THEN [role |-> "mentor", kicked_at |-> 0,
              can_edit |-> TRUE, can_share_screen |-> TRUE]
        ELSE NewParticipant("student")]

CreateInsertParticipants(p) ==
    /\ NoneDone
    /\ pc[p] = "cs_participants"
    /\ LET c == call[p]
           rows == CreateParticipantRows(c.sess, c.user, c.students)
       IN  \E answered \in BOOLEAN :
             LET e == InsertError(c.sess, DOMAIN rows, answered)
             IN  IF e = "none"
                 THEN /\ participants' = [participants EXCEPT ![c.sess] =
                             [u \in Users |-> IF u \in DOMAIN rows
                                              THEN <<rows[u]>> ELSE @[u]]]
                      /\ Finish(p, Access(c, TRUE, TRUE), "ok")
                 ELSE /\ Goto(p, [Access(c, answered, FALSE) EXCEPT
                                     !.err = e],
                              "cs_rollback")
                      /\ UNCHANGED participants
    /\ UNCHANGED <<sessions, nextId, flagDefault, clock, wide, gw>>

\* delete from mentorship_sessions where id = s: the rows that reference
\* the session go with it
DeleteSession(s) ==
    /\ sessions' = [sessions EXCEPT ![s] = <<>>]
    /\ participants' = [participants EXCEPT ![s] = [u \in Users |-> <<>>]]

\* what createSession does with the answer of the compensating delete:
\* nothing, it throws the 500 of the failed insert
RollbackOutcome(deleteError) == "500"

CreateRollback(p) ==
    /\ NoneDone
    /\ pc[p] = "cs_rollback"
    /\ \E answered \in BOOLEAN :
         /\ IF answered THEN DeleteSession(call[p].sess)
            ELSE UNCHANGED <<sessions, participants>>
         /\ Finish(p, [call[p] EXCEPT !.touched = @ + 1,
                                      !.changed = @ \/ answered],
                   RollbackOutcome(~answered))
    /\ UNCHANGED <<nextId, flagDefault, clock, wide, gw>>

(* --------------------------- joinSessionByCode ------------------------ *)

\* what the lookup by invite code and the status check decide
JoinLookupOutcome(res) ==
    IF res.error THEN "500"
    ELSE IF res.data = <<>> THEN "404"
    ELSE IF res.data[1].status \in {"completed", "cancelled"} THEN "400"
    ELSE "next"

\* POST /api/sessions/join: any authenticated user
JoinLookup(p) ==
    /\ MayStart(p)
    /\ \E u \in Users, code \in Codes, answered \in BOOLEAN :
         LET c == Access([NoCall EXCEPT !.op = "joinByInviteCode",
                                        !.user = u, !.code = code],
                         answered, FALSE)
             res == IF answered THEN SelectSessionByCode(code) ELSE StoreError
             out == JoinLookupOutcome(res)
         IN  IF out = "next"
             THEN Goto(p, [c EXCEPT !.sess = code,
                                    !.owner = res.data[1].created_by],
                       "jn_member")
             ELSE Finish(p, c, out)
    /\ UNCHANGED <<sessions, participants, nextId, flagDefault, clock, wide,
                   gw>>

\* as JoinMembershipOutcome, without the check of kicked_at
JoinMembershipKickedPasses(res) ==
    IF res.error THEN "500"
    ELSE IF res.data = <<>> THEN "next"
    ELSE "ok"

\* what the membership read decides
JoinMembershipOutcome(res) ==
    IF res.error THEN "500"
    ELSE IF res.data # <<>> /\ res.data[1].kicked_at # 0 THEN "403"
    ELSE IF res.data = <<>> THEN "next"
    ELSE "ok"

JoinMembership(p) ==
    /\ NoneDone
    /\ pc[p] = "jn_member"
    /\ \E answered \in BOOLEAN :
         LET c == Access(call[p], answered, FALSE)
             res == IF answered THEN SelectParticipant(c.sess, c.user)
                    ELSE StoreError
             out == JoinMembershipOutcome(res)
         IN  IF out = "next" THEN Goto(p, c, "jn_insert")
             ELSE Finish(p, c, out)
    /\ UNCHANGED <<sessions, participants, nextId, flagDefault, clock, wide,
                   gw>>

\* as JoinRole, with every joiner a student
JoinRoleAlwaysStudent(userId, created_by) == "student"

\* role of the row a join inserts
JoinRole(userId, created_by) ==
    IF userId = created_by THEN "mentor" ELSE "student"

\* an insert error of any kind, a unique violation included, is a 500
JoinInsertOutcome(insertError) ==
    IF insertError THEN "500" ELSE "ok"

JoinInsert(p) ==
    /\ NoneDone
    /\ pc[p] = "jn_insert"
    /\ \E answered \in BOOLEAN :
         LET e == InsertError(call[p].sess, {call[p].user}, answered)
             c == [Access(call[p], answered, e = "none") EXCEPT !.err = e]
         IN  /\ IF e = "none"
                THEN participants' = [participants EXCEPT ![c.sess][c.user] =
                        <<NewParticipant(JoinRole(c.user, c.owner))>>]
                ELSE UNCHANGED participants
             /\ Finish(p, c, JoinInsertOutcome(e # "none"))
    /\ UNCHANGED <<sessions, nextId, flagDefault, clock, wide, gw>>

(* ------------------------ ensureSessionExistsWithOwner ---------------- *)

SessionLookupOutcome(res) ==
    IF res.error THEN "500"
    ELSE IF res.data = <<>> THEN "404"
    ELSE "next"

(* ----------------------------- kickParticipant ------------------------ *)

\* the checks of kickParticipant before its update
KickGuardOutcome(res, mentorId, targetUserId) ==
    IF SessionLookupOutcome(res) # "next" THEN SessionLookupOutcome(res)
    ELSE IF res.data[1].created_by # mentorId THEN "403"
    ELSE IF targetUserId = mentorId THEN "400"
    ELSE "next"

\* POST /api/sessions/:id/kick: the route admits role mentor only
KickLookup(p) ==
    /\ MayStart(p)
    /\ \E m \in Users, s \in SessIds, t \in Users, answered \in BOOLEAN :
         LET c == Access([NoCall EXCEPT !.op = "kick", !.user = m,
                                        !.role = "mentor", !.sess = s,
                                        !.target = t],
                         answered, FALSE)
             res == IF answered THEN SelectSession(s) ELSE StoreError
             out == KickGuardOutcome(res, m, t)
         IN  IF out = "next" THEN Goto(p, c, "kk_update")
             ELSE Finish(p, c, out)
    /\ UNCHANGED <<sessions, participants, nextId, flagDefault, clock, wide,
                   gw>>

\* as KickMatches, without the filter on kicked_at
KickMatchesAnyRow(rows) == DOMAIN rows

\* the rows the kick's update matches: .is('kicked_at', null)
KickMatches(rows) == {i \in DOMAIN rows : rows[i].kicked_at = 0}

\* as KickedRow, leaving the permission flags as they are
KickedRowKeepsFlags(row, now) == [row EXCEPT !.kicked_at = now]

\* update ... set kicked_at = now, can_edit = false, can_share_screen = false
KickedRow(row, now) ==
    [row EXCEPT !.kicked_at = now, !.can_edit = FALSE,
                !.can_share_screen = FALSE]

\* .maybeSingle() on the rows the update returns
UpdateOutcome(n) ==
    IF n > 1 THEN "500" ELSE IF n = 0 THEN "404" ELSE "ok"

KickUpdate(p) ==
    /\ NoneDone
    /\ pc[p] = "kk_update"
    /\ \E answered \in BOOLEAN :
         LET c == call[p]
             rows == participants[c.sess][c.target]
             hit == KickMatches(rows)
             new == [i \in DOMAIN rows |->
                        IF i \in hit THEN KickedRow(rows[i], clock)
                        ELSE rows[i]]
         IN  IF answered
             THEN /\ participants' = [participants EXCEPT
                                         ![c.sess][c.target] = new]
                  /\ Finish(p, Access(c, TRUE, new # rows),
                            UpdateOutcome(Cardinality(hit)))
             ELSE /\ UNCHANGED participants
                  /\ Finish(p, Access(c, FALSE, FALSE), "500")
    /\ UNCHANGED <<sessions, nextId, flagDefault, clock, wide, gw>>

(* ---------------------- updateParticipantPermissions ------------------ *)

PermissionChanges ==
    [can_edit : Optional(BOOLEAN), can_share_screen : Optional(BOOLEAN)]

\* the representatives Spec draws: no field, and can_edit = true
FewPermissionChanges ==
    {ch \in PermissionChanges :
        ch.can_share_screen = {} /\ ch.can_edit \in {{}, {TRUE}}}

\* the patch object: one key per argument that is not undefined
BuildPatch(changes) ==
    [f \in {g \in DOMAIN changes : changes[g] # {}} |->
        CHOOSE v \in changes[f] : TRUE]

\* as ApplyPatch, with the omitted flags reset to false
ApplyPatchDefaulting(row, patch) ==
    [f \in DOMAIN row |->
        IF f \in DOMAIN patch THEN patch[f]
        ELSE IF f \in {"can_edit", "can_share_screen", "allow_chat"} THEN FALSE
        ELSE row[f]]

\* update(patch): the supplied columns take the patch's values
ApplyPatch(row, patch) ==
    [f \in DOMAIN row |-> IF f \in DOMAIN patch THEN patch[f] ELSE row[f]]

\* as PermGuardOutcome, with every caller taken as the session's creator
PermGuardOutcomeAnyCaller(res, mentorId, patch) ==
    IF SessionLookupOutcome(res) # "next" THEN SessionLookupOutcome(res)
    ELSE IF DOMAIN patch = {} THEN "400"
    ELSE "next"

\* the checks of updateParticipantPermissions before its update
PermGuardOutcome(res, mentorId, patch) ==
    IF SessionLookupOutcome(res) # "next" THEN SessionLookupOutcome(res)
    ELSE IF res.data[1].created_by # mentorId THEN "403"
    ELSE IF DOMAIN patch = {} THEN "400"
    ELSE "next"

\* POST /api/sessions/:id/permissions admits role mentor only; the socket
\* event permissions:update admits every role
PermLookup(p) ==
    /\ MayStart(p)
    /\ \E m \in Users, role \in Roles, s \in SessIds, t \in Users,
          changes \in (IF wide THEN PermissionChanges
                       ELSE FewPermissionChanges),
          answered \in BOOLEAN :
         LET patch == BuildPatch(changes)
             c == Access([NoCall EXCEPT !.op = "updatePermissions",
                                        !.user = m, !.role = role,
                                        !.sess = s, !.target = t,
                                        !.patch = patch],
                         answered, FALSE)
             res == IF answered THEN SelectSession(s) ELSE StoreError
             out == PermGuardOutcome(res, m, patch)
         IN  IF out = "next" THEN Goto(p, c, "pm_update")
             ELSE Finish(p, c, out)
    /\ UNCHANGED <<sessions, participants, nextId, flagDefault, clock, wide,
                   gw>>

\* the rows the permission update matches: session and user, nothing else
PermMatches(rows) == DOMAIN rows

PermUpdate(p) ==
    /\ NoneDone
    /\ pc[p] = "pm_update"
    /\ \E answered \in BOOLEAN :
         LET c == call[p]
             rows == participants[c.sess][c.target]
             hit == PermMatches(rows)
             new == [i \in DOMAIN rows |->
                        IF i \in hit THEN ApplyPatch(rows[i], c.patch)
                        ELSE rows[i]]
         IN  IF answered
             THEN /\ participants' = [participants EXCEPT
                                         ![c.sess][c.target] = new]
                  /\ Finish(p, Access(c, TRUE, new # rows),
                            UpdateOutcome(Cardinality(hit)))
             ELSE /\ UNCHANGED participants
                  /\ Finish(p, Access(c, FALSE, FALSE), "500")
    /\ UNCHANGED <<sessions, nextId, flagDefault, clock, wide, gw>>

(* -------------------------- updateSessionSettings --------------------- *)

\* of the nine optional fields, which the function copies one by one in
\* the same way, the model keeps status and allow_chat
SessionUpdateInput ==
    [status : Optional(Statuses), allow_chat : Optional(BOOLEAN)]

\* the representatives Spec draws: no field, status = live and status =
\* completed
FewSessionUpdateInput ==
    {up \in SessionUpdateInput :
        up.allow_chat = {} /\ up.status \in {{}, {"live"}, {"completed"}}}

\* the check of updateSessionSettings before its update
SettingsGuardOutcome(patch) ==
    IF DOMAIN patch = {} THEN "400" ELSE "next"

\* as SettingsMatches, without the filter on created_by
SettingsMatchesAnyOwner(rows, mentorId) == DOMAIN rows

\* the rows the settings update matches: .eq('id').eq('created_by')
SettingsMatches(rows, mentorId) ==
    {i \in DOMAIN rows : rows[i].created_by = mentorId}

\* PATCH /api/sessions/:id: the route admits role mentor only.  An empty
\* patch is refused before the store is touched; otherwise the one store
\* access is the filtered update
UpdateSessionSettings(p) ==
    /\ MayStart(p)
    /\ \E m \in Users, s \in SessIds,
          updates \in (IF wide THEN SessionUpdateInput
                       ELSE FewSessionUpdateInput),
          answered \in BOOLEAN :
         LET patch == BuildPatch(updates)
             c == [NoCall EXCEPT !.op = "updateSessionSettings",
                                 !.user = m, !.role = "mentor", !.sess = s,
                                 !.patch = patch]
             rows == sessions[s]
             hit == SettingsMatches(rows, m)
             new == [i \in DOMAIN rows |->
                        IF i \in hit THEN ApplyPatch(rows[i], patch)
                        ELSE rows[i]]
         IN  IF SettingsGuardOutcome(patch) # "next"
             THEN /\ answered
                  /\ Finish(p, c, SettingsGuardOutcome(patch))
                  /\ UNCHANGED sessions
             ELSE IF answered
             THEN /\ sessions' = [sessions EXCEPT ![s] = new]
                  /\ Finish(p, Access(c, TRUE, new # rows),
                            UpdateOutcome(Cardinality(hit)))
             ELSE /\ UNCHANGED sessions
                  /\ Finish(p, Access(c, FALSE, FALSE), "500")
    /\ UNCHANGED <<participants, nextId, flagDefault, clock, wide, gw>>

(* ------------------------------- clock -------------------------------- *)

\* the clock is read by the update of kickParticipant only, so time is
\* let pass only while such an update is about to be issued
Tick ==
    /\ NoneDone
    /\ clock < MaxClock
    /\ \E p \in Procs : pc[p] = "kk_update"
    /\ clock' = clock + 1
    /\ UNCHANGED <<sessions, participants, nextId, flagDefault, wide, pc, call,
                   gw>>

(* ----------------------------- resolveRole ---------------------------- *)

\* what a role source may hold: nothing (the empty set: undefined or
\* null), a role, or another string
RoleValues == {"mentor", "student", "admin"}

\* user_metadata.role ?? app_metadata.role
FromMetadata(user_metadata, app_metadata) ==
    IF user_metadata # {} THEN user_metadata ELSE app_metadata

\* value === 'mentor' || value === 'student'
IsUserRole(value) == value \in {{"mentor"}, {"student"}}

\* the role as the result of the call
RoleResult(value) ==
    IF IsUserRole(value) THEN CHOOSE r \in value : TRUE ELSE "undefined"

\* resolveRole of authenticate, up to the read of the profile: a valid
\* role of the metadata is returned at once
ResolveRoleMetadata(p) ==
    /\ MayStart(p)
    /\ \E u \in Users, user_metadata \in Optional(RoleValues),
          app_metadata \in Optional(RoleValues),
          profile \in Optional(RoleValues) :
         LET c == [NoCall EXCEPT !.op = "resolveRole", !.user = u,
                      !.roles = [user_metadata |-> user_metadata,
                                 app_metadata |-> app_metadata,
                                 profile |-> profile]]
             fromMetadata == FromMetadata(user_metadata, app_metadata)
         IN  IF IsUserRole(fromMetadata)
             THEN Finish(p, c, RoleResult(fromMetadata))
             ELSE Goto(p, c, "rr_profile")
    /\ UNCHANGED <<sessions, participants, nextId, flagDefault, clock, wide,
                   gw>>

\* resolveRole: the answer of the profiles table
ResolveRoleProfile(p) ==
    /\ NoneDone
    /\ pc[p] = "rr_profile"
    /\ \E answered \in BOOLEAN :
         LET c == Access(call[p], answered, FALSE)
         IN  IF answered THEN Finish(p, c, RoleResult(c.roles.profile))
             ELSE Finish(p, c, "500")
    /\ UNCHANGED <<sessions, participants, nextId, flagDefault, clock, wide,
                   gw>>

(* --------------------------- socket gateway --------------------------- *)

\* the store under the gateway specifications, as createSession leaves
\* it: MaxRooms sessions created by u1, the first with u2 as a student,
\* the others with the owner alone; no HTTP request in flight
InitGwStore ==
    /\ sessions = [s \in 1..MaxRooms |-> <<NewSession("u1", {})>>]
    /\ flagDefault = TRUE
    /\ participants = [s \in 1..MaxRooms |->
            LET rows == CreateParticipantRows(s, "u1",
                                              IF s = 1 THEN {"u2"} ELSE {})
            IN  [u \in Users |-> IF u \in DOMAIN rows THEN <<rows[u]>>
                                 ELSE <<>>]]
    /\ nextId = MaxRooms + 1
    /\ clock = 1
    /\ pc = [p \in Procs |-> "idle"]
    /\ call = [p \in Procs |-> NoCall]
    /\ wide = TRUE

InitGw == InitGwStore /\ InitGateway

\* handshake.auth.token and the authorization header of a handshake
Tokens == {"", "t1", "t2", "tx"}
Headers == {"Bearer", "Bearer t1", "Bearer tx", "t2"}

\* authorization?.replace('Bearer', '').trim()
HeaderToken(header) ==
    IF header = {} THEN {}
    ELSE LET h == CHOOSE v \in header : TRUE
         IN  {CASE h = "Bearer" -> ""
                [] h = "Bearer t1" -> "t1"
                [] h = "Bearer tx" -> "tx"
                [] OTHER -> h}

\* handshake.auth?.token ?? headerToken
HandshakeToken(authToken, header) ==
    IF authToken # {} THEN authToken ELSE HeaderToken(header)

\* !token
NoToken(token) == token = {} \/ token = {""}

\* what supabaseAdmin.auth.getUser(token) may answer: the user of a valid
\* token, an error, no user, or a thrown exception
ProviderAnswers(token) ==
    {"error", "nouser", "throws"}
        \cup (IF token = {"t1"} THEN {"u1"} ELSE {})
        \cup (IF token = {"t2"} THEN {"u2"} ELSE {})

\* as AuthReject, with a provider that found no user taken as accepted
AuthRejectAdmitsNoUser(token, answer) ==
    IF NoToken(token) THEN "Missing authentication token"
    ELSE IF answer = "error" THEN "Invalid or expired authentication token"
    ELSE IF answer = "throws" THEN "Unable to authenticate socket connection"
    ELSE ""

\* the error the middleware rejects the handshake with, "" if it accepts
AuthReject(token, answer) ==
    IF NoToken(token) THEN "Missing authentication token"
    ELSE IF answer \in {"error", "nouser"}
         THEN "Invalid or expired authentication token"
    ELSE IF answer = "throws" THEN "Unable to authenticate socket connection"
    ELSE ""

\* io.use middleware and the connection handler: a handshake is rejected,
\* or the socket is open with its user and the handlers are registered
Connect(c) ==
    /\ NoneDone
    /\ conns[c].status = "new"
    /\ \E authToken \in Optional(Tokens), header \in Optional(Headers) :
         LET token == HandshakeToken(authToken, header)
         IN  \E answer \in (IF NoToken(token) THEN {"none"}
                            ELSE ProviderAnswers(token)) :
               LET reject == AuthReject(token, answer)
               IN  conns' = [conns EXCEPT ![c] =
                      IF reject # ""
                      THEN [NoConn EXCEPT !.status = "rejected",
                                          !.token = token,
                                          !.answer = answer,
                                          !.reason = reject]
                      ELSE [NoConn EXCEPT !.status = "open",
                                          !.user = answer]]
    /\ UNCHANGED <<runner, sessions, participants, nextId, flagDefault, clock, wide,
                   pc, call, messages, hpc, req>>

\* a rejected handshake leaves no socket behind
Drop(c) ==
    /\ conns[c].status = "rejected"
    /\ conns' = [conns EXCEPT ![c] = NoConn]
    /\ UNCHANGED <<runner, sessions, participants, nextId, flagDefault, clock, wide,
                   pc, call, messages, hpc, req>>

\* as Disconnect, with a transport that leaves the socket in its rooms
DisconnectKeepsRooms(c) ==
    /\ NoneDone
    /\ conns[c].status = "open"
    /\ conns' = [conns EXCEPT ![c].status = "closed"]
    /\ UNCHANGED <<runner, sessions, participants, nextId, flagDefault, clock, wide,
                   pc, call, messages, hpc, req>>

\* the socket closes: the transport takes it out of every room; the
\* disconnect handler only logs, and a handler in flight runs on
Disconnect(c) ==
    /\ NoneDone
    /\ conns[c].status = "open"
    /\ conns' = [conns EXCEPT ![c].status = "closed", ![c].rooms = {}]
    /\ UNCHANGED <<runner, sessions, participants, nextId, flagDefault, clock, wide,
                   pc, call, messages, hpc, req>>

\* the socket a handler runs on.  The handlers of one socket run
\* concurrently: an entry of conns with status "slot" is no socket of its
\* own but a further handler of socket 1
Sock(c) == IF conns[c].status = "slot" THEN 1 ELSE c

\* the sockets an emit to room session:s is delivered to
RoomMembers(s) ==
    {c \in Conns : conns[c].status = "open" /\ s \in conns[c].rooms}

\* a handler may be started in a free slot of an open socket
MayHandle(c) ==
    /\ NoneDone
    /\ conns[Sock(c)].status = "open"
    /\ hpc[c] = "idle"

GwGoto(c, r, label) ==
    /\ hpc' = [hpc EXCEPT ![c] = label]
    /\ req' = [req EXCEPT ![c] = r]

\* as AckOk, with the callback never called
AckOkNoCallback(c, r) == [r EXCEPT !.result = "ok"]

\* callback({ ok: true })
AckOk(c, r) ==
    [r EXCEPT !.result = "ok", !.acks = @ + 1, !.ack = "ok"]

\* as AckFail, without the session:error event
AckFailSilent(c, r, status) ==
    [r EXCEPT !.result = status, !.acks = @ + 1, !.ack = "fail"]

\* the catch block: callback({ ok: false, message }) and session:error to
\* the socket itself
AckFail(c, r, status) ==
    [r EXCEPT !.result = status, !.acks = @ + 1, !.ack = "fail",
              !.error = @ \cup {Sock(c)}]

\* io.to(room).emit(ev, ...)
Cast(r, ev, to) == [r EXCEPT !.cast = ev, !.to = to]

GwFinish(c, r) == GwGoto(c, r, "done")

\* the handler has returned
GwReturn(c) ==
    /\ hpc[c] = "done"
    /\ GwGoto(c, NoReq, "idle")
    /\ UNCHANGED <<runner, sessions, participants, nextId, flagDefault, clock, wide,
                   pc, call, messages, conns>>

\* session:join, up to the answer of ensureSessionParticipant
SessionJoinEnsure(c) ==
    /\ MayHandle(c)
    /\ \E s \in SessIds \cup {0}, answered \in BOOLEAN :
         LET r == [NoReq EXCEPT !.ev = "session:join", !.sess = s]
             res == IF answered THEN SelectParticipant(s, conns[Sock(c)].user)
                    ELSE StoreError
             out == EnsureOutcome(res)
         IN  IF s = 0 THEN answered /\ GwFinish(c, AckFail(c, r, "400"))
             ELSE IF out = "ok" THEN GwGoto(c, r, "sj_join")
             ELSE GwFinish(c, AckFail(c, r, out))
    /\ UNCHANGED <<runner, sessions, participants, nextId, flagDefault, clock, wide,
                   pc, call, messages, conns>>

\* as JoinRoom, with a socket.join that records nothing
JoinRoomRecordsNothing(cn, s) == cn

\* socket.join(room): the rooms of the socket once the adapter recorded it
JoinRoom(cn, s) == [cn EXCEPT !.rooms = @ \cup {s}]

\* session:join, after the await of ensureSessionParticipant:
\* socket.join(room), which is awaited in turn.  On a socket closed
\* meanwhile the transport may or may not record the room
SessionJoinEnter(c) ==
    /\ NoneDone
    /\ hpc[c] = "sj_join"
    /\ LET s == req[c].sess
           k == Sock(c)
       IN  \E recorded \in (IF conns[k].status = "open" THEN {TRUE}
                            ELSE BOOLEAN) :
              conns' = [conns EXCEPT ![k] = IF recorded THEN JoinRoom(@, s)
                                            ELSE @]
    /\ hpc' = [hpc EXCEPT ![c] = "sj_record"]
    /\ UNCHANGED <<runner, sessions, participants, nextId, flagDefault, clock, wide,
                   pc, call, messages, req>>

\* session:join, after the await of socket.join: data.sessionId, the
\* acknowledgment and session:joined.  A socket closed meanwhile is
\* delivered nothing
SessionJoinRecord(c) ==
    /\ NoneDone
    /\ hpc[c] = "sj_record"
    /\ LET s == req[c].sess
           k == Sock(c)
       IN  /\ conns' = [conns EXCEPT ![k].sessionId = s]
           /\ GwFinish(c, [AckOk(c, req[c]) EXCEPT
                             !.joined = IF conns[k].status = "open"
                                        THEN {k} ELSE {}])
    /\ UNCHANGED <<runner, sessions, participants, nextId, flagDefault, clock, wide,
                   pc, call, messages>>

\* the events whose payload is stored before it is sent to the room
StoredEvents == {"chat:message", "code:update"}

\* the row addSessionMessage / addCodeSnapshot inserts
StoredRow(ev, s, u) ==
    [table |-> IF ev = "chat:message" THEN "session_messages"
               ELSE "session_code_snapshots",
     session_id |-> s, author_id |-> u]

\* chat:message and code:update, up to the answer of the
\* ensureSessionParticipant of addSessionMessage / addCodeSnapshot
StoredEventEnsure(c) ==
    /\ MayHandle(c)
    /\ Cardinality(messages)
          + Cardinality({d \in Conns : hpc[d] = "se_insert"}) < MaxStored
    /\ \E ev \in StoredEvents, content \in BOOLEAN, answered \in BOOLEAN :
         LET s == conns[Sock(c)].sessionId
             r == [NoReq EXCEPT !.ev = ev, !.sess = s]
             res == IF answered THEN SelectParticipant(s, conns[Sock(c)].user)
                    ELSE StoreError
             out == EnsureOutcome(res)
         IN  IF s = 0 \/ ~content
             THEN answered /\ GwFinish(c, AckFail(c, r, "400"))
             ELSE IF out = "ok" THEN GwGoto(c, r, "se_insert")
             ELSE GwFinish(c, AckFail(c, r, out))
    /\ UNCHANGED <<runner, sessions, participants, nextId, flagDefault, clock, wide,
                   pc, call, messages, conns>>

\* as StoredInsertOutcome, with the error of the insert ignored
StoredInsertOutcomeIgnoresError(answered) == "ok"

\* if (error) throw new HttpError(500, ...)
StoredInsertOutcome(answered) == IF answered THEN "ok" ELSE "500"

\* chat:message and code:update: the insert, then the emit to the room and
\* the acknowledgment
StoredEventInsert(c) ==
    /\ NoneDone
    /\ hpc[c] = "se_insert"
    /\ \E answered \in BOOLEAN :
         LET r == [req[c] EXCEPT !.wrote = answered]
             out == StoredInsertOutcome(answered)
         IN  /\ messages' = IF answered
                            THEN messages \cup
                                   {StoredRow(r.ev, r.sess, conns[Sock(c)].user)}
                            ELSE messages
             /\ IF out = "ok"
                THEN GwFinish(c, AckOk(c, Cast(r, r.ev, RoomMembers(r.sess))))
                ELSE GwFinish(c, AckFail(c, r, out))
    /\ UNCHANGED <<runner, sessions, participants, nextId, flagDefault, clock, wide,
                   pc, call, conns>>

\* the languages a code:run is sent with (without one it is javascript)
RunLanguages == {"PYTHON", "java", "C#", "ruby"}

\* toLowerCase()
Lower(language) ==
    CASE language = "PYTHON" -> "python"
      [] language = "C#" -> "c#"
      [] OTHER -> language

\* the case labels of the switch of executeCode
SupportedLanguages ==
    {"javascript", "typescript", "python", "java", "csharp", "c#", "go"}

\* the positions of a handler inside executeCode
ExecLabels ==
    {"ex_mkdtemp", "ex_write", "ex_compile", "ex_run", "ex_cleanup"}

\* as Executor, with every other language run as JavaScript
ExecutorByDefault(language) ==
    CASE language = "typescript" -> "executeTypeScript"
      [] language = "python" -> "executePython"
      [] language = "java" -> "executeJava"
      [] language \in {"csharp", "c#"} -> "executeCSharp"
      [] language = "go" -> "executeGo"
      [] OTHER -> "executeJavaScript"

\* the switch of executeCode
Executor(language) ==
    CASE language = "javascript" -> "executeJavaScript"
      [] language = "typescript" -> "executeTypeScript"
      [] language = "python" -> "executePython"
      [] language = "java" -> "executeJava"
      [] language \in {"csharp", "c#"} -> "executeCSharp"
      [] language = "go" -> "executeGo"
      [] OTHER -> "unsupported"

\* executeCode returns an ExecutionResult
Returned(run, output, error) ==
    [run EXCEPT !.returned = TRUE, !.output = output, !.error = error]

\* the default branch of the switch
UnsupportedResult(run) == Returned(run, "", {"unsupported"})

\* the catch block of executeCode: a thrown error becomes a result
CaughtResult(run, fault) ==
    Returned([run EXCEPT !.fault = fault], "", {"message"})

\* executeCode up to its first await: the default branch returns at once,
\* an executor calls createTempFile (executeJava: mkdtemp)
ExecuteCode(c, r, given) ==
    LET language == Lower(given)
        run == [NoRun EXCEPT !.language = language,
                             !.executor = Executor(language)]
    IN  IF run.executor = "unsupported"
        THEN GwGoto(c, [r EXCEPT !.run = UnsupportedResult(run)], "cr_exec")
        ELSE GwGoto(c, [r EXCEPT !.run = run], "ex_mkdtemp")

\* code:run, up to the first await of executeCode; a language that is no
\* string makes toLowerCase throw
CodeRunStart(c) ==
    /\ MayHandle(c)
    /\ \E content \in BOOLEAN, languageIsString \in BOOLEAN :
         LET s == conns[Sock(c)].sessionId
             r == [NoReq EXCEPT !.ev = "code:run", !.sess = s]
         IN  IF s = 0 \/ ~content THEN GwFinish(c, AckFail(c, r, "400"))
             ELSE IF ~languageIsString
             THEN GwFinish(c, AckFail(c, r, "error"))
             ELSE IF ~stepwise THEN GwGoto(c, r, "cr_exec")
             ELSE \E given \in Optional(RunLanguages) :
                    ExecuteCode(c, r,
                       Lower(IF given = {} THEN "javascript"
                             ELSE CHOOSE l \in given : TRUE))
    /\ UNCHANGED <<runner, sessions, participants, nextId, flagDefault, clock,
                   wide, pc, call, messages, conns>>

\* fs.mkdtemp: a new directory, or an error that executeCode catches
ExecMkdtemp(c) ==
    /\ NoneDone
    /\ hpc[c] = "ex_mkdtemp"
    /\ \E made \in BOOLEAN :
         IF made /\ Dirs \ tmp # {}
         THEN LET dir == CHOOSE d \in Dirs \ tmp :
                            \A e \in Dirs \ tmp : d <= e
              IN  /\ tmp' = tmp \cup {dir}
                  /\ GwGoto(c, [req[c] EXCEPT !.run.dir = dir], "ex_write")
         ELSE /\ tmp' = tmp
              /\ GwGoto(c, [req[c] EXCEPT !.run = CaughtResult(@, "mkdtemp")],
                        "cr_exec")
    /\ UNCHANGED <<stepwise, sessions, participants, nextId, flagDefault,
                   clock, wide, pc, call, messages, conns>>

\* fs.writeFile of the source file: then the first child process is
\* spawned (javac for executeJava), or the error is thrown past the
\* executor, whose try block has not been entered, to executeCode
ExecWriteFile(c) ==
    /\ NoneDone
    /\ hpc[c] = "ex_write"
    /\ \E written \in BOOLEAN :
         IF written
         THEN GwGoto(c, [req[c] EXCEPT !.run.child = "running",
                                       !.run.spawned = @ + 1],
                     IF req[c].run.executor = "executeJava" THEN "ex_compile"
                     ELSE "ex_run")
         ELSE GwGoto(c, [req[c] EXCEPT !.run = CaughtResult(@, "writeFile")],
                     "cr_exec")
    /\ UNCHANGED <<runner, sessions, participants, nextId, flagDefault, clock,
                   wide, pc, call, messages, conns>>

\* how a child process of execAsync ends: by itself with exit code 0 or
\* another, or stopped by exec after TIMEOUT_MS or over maxBuffer
ChildExits == {"exit0", "nonzero", "timeout", "overflow"}

\* as ChildAfter, with a child that outlives its timeout
ChildAfterOutlives(exit) ==
    IF exit = "overflow" THEN "killed"
    ELSE IF exit = "timeout" THEN "running"
    ELSE "exited"

\* the child after execAsync has settled
ChildAfter(exit) ==
    IF exit \in {"timeout", "overflow"} THEN "killed" ELSE "exited"

\* as ResultError, without the message of the failed invocation
ResultErrorStderrOnly(exit, stderr) ==
    IF stderr THEN {"stderr"} ELSE {}

\* stderr.trim() || null after exit code 0, err.stderr?.trim() ||
\* err.message in the catch block of an executor
ResultError(exit, stderr) ==
    IF stderr THEN {"stderr"}
    ELSE IF exit = "exit0" THEN {}
    ELSE {"message"}

\* the result an executor builds of the child that has ended
ChildResult(run, exit, stdout, stderr) ==
    [run EXCEPT !.exit = exit, !.child = ChildAfter(exit),
                !.output = IF stdout THEN "stdout" ELSE "",
                !.error = ResultError(exit, stderr)]

\* executeJava: javac has ended; java is spawned only after exit code 0
ExecCompile(c) ==
    /\ NoneDone
    /\ hpc[c] = "ex_compile"
    /\ \E exit \in ChildExits, stdout \in BOOLEAN, stderr \in BOOLEAN :
         IF exit = "exit0"
         THEN /\ ~stdout /\ ~stderr
              /\ GwGoto(c, [req[c] EXCEPT !.run.compiled = TRUE,
                                          !.run.child = "running",
                                          !.run.spawned = @ + 1],
                        "ex_run")
         ELSE GwGoto(c, [req[c] EXCEPT
                            !.run = ChildResult(@, exit, stdout, stderr)],
                     "ex_cleanup")
    /\ UNCHANGED <<runner, sessions, participants, nextId, flagDefault, clock,
                   wide, pc, call, messages, conns>>

\* the child that runs the snippet has ended
ExecRun(c) ==
    /\ NoneDone
    /\ hpc[c] = "ex_run"
    /\ \E exit \in ChildExits, stdout \in BOOLEAN, stderr \in BOOLEAN :
         GwGoto(c, [req[c] EXCEPT
                       !.run = ChildResult(@, exit, stdout, stderr)],
                "ex_cleanup")
    /\ UNCHANGED <<runner, sessions, participants, nextId, flagDefault, clock,
                   wide, pc, call, messages, conns>>

\* the finally block of an executor: fs.rm of the directory.  Its error
\* is logged by cleanupTempFile; executeJava calls fs.rm itself, and its
\* error replaces the result
ExecCleanup(c) ==
    /\ NoneDone
    /\ hpc[c] = "ex_cleanup"
    /\ \E removed \in BOOLEAN :
         LET run == req[c].run
         IN  /\ tmp' = IF removed THEN tmp \ {run.dir} ELSE tmp
             /\ GwGoto(c, [req[c] EXCEPT !.run =
                     IF removed THEN Returned(run, run.output, run.error)
                     ELSE IF run.executor = "executeJava"
                     THEN CaughtResult(run, "rm")
                     ELSE Returned([run EXCEPT !.fault = "rm"],
                                   run.output, run.error)],
                       "cr_exec")
    /\ UNCHANGED <<stepwise, sessions, participants, nextId, flagDefault,
                   clock, wide, pc, call, messages, conns>>

\* code:run, after executeCode has returned its result (it returns one for
\* every snippet): the emit to the room and the acknowledgment
CodeRunResult(c) ==
    /\ NoneDone
    /\ hpc[c] = "cr_exec"
    /\ GwFinish(c, AckOk(c, Cast(req[c], "code:run-result",
                                 RoomMembers(req[c].sess))))
    /\ UNCHANGED <<runner, sessions, participants, nextId, flagDefault, clock, wide,
                   pc, call, messages, conns>>

RelayEvents ==
    {"webrtc:ready", "webrtc:offer", "webrtc:answer", "webrtc:ice-candidate",
     "webrtc:end", "media:state"}

\* as Relay, with the emit made whatever the session id
RelayWithoutRoom(c) ==
    /\ MayHandle(c)
    /\ \E ev \in RelayEvents :
         LET s == conns[Sock(c)].sessionId
             r == [NoReq EXCEPT !.ev = ev, !.sess = s]
         IN  GwFinish(c, Cast(r, ev, RoomMembers(s) \ {Sock(c)}))
    /\ UNCHANGED <<runner, sessions, participants, nextId, flagDefault, clock, wide,
                   pc, call, messages, conns>>

\* the relay handlers: socket.to(room).emit(ev, ...), nothing without a
\* session id, never an acknowledgment
Relay(c) ==
    /\ MayHandle(c)
    /\ \E ev \in RelayEvents :
         LET s == conns[Sock(c)].sessionId
             r == [NoReq EXCEPT !.ev = ev, !.sess = s]
         IN  IF s # 0 THEN GwFinish(c, Cast(r, ev, RoomMembers(s) \ {Sock(c)}))
             ELSE GwFinish(c, r)
    /\ UNCHANGED <<runner, sessions, participants, nextId, flagDefault, clock, wide,
                   pc, call, messages, conns>>

\* permissions:update, up to the answer of the session read of
\* updateParticipantPermissions
PermissionsLookup(c) ==
    /\ MayHandle(c)
    /\ \E target \in Users \cup {""}, changes \in FewPermissionChanges,
          answered \in BOOLEAN :
         LET s == conns[Sock(c)].sessionId
             patch == BuildPatch(changes)
             r == [NoReq EXCEPT !.ev = "permissions:update", !.sess = s,
                                !.target = target, !.patch = patch]
             res == IF answered THEN SelectSession(s) ELSE StoreError
             out == PermGuardOutcome(res, conns[Sock(c)].user, patch)
         IN  IF s = 0 \/ target = ""
             THEN answered /\ GwFinish(c, AckFail(c, r, "400"))
             ELSE IF out = "next" THEN GwGoto(c, r, "pu_update")
             ELSE GwFinish(c, AckFail(c, r, out))
    /\ UNCHANGED <<runner, sessions, participants, nextId, flagDefault, clock, wide,
                   pc, call, messages, conns>>

\* permissions:update: the update, then the emit to the room and the
\* acknowledgment
PermissionsUpdate(c) ==
    /\ NoneDone
    /\ hpc[c] = "pu_update"
    /\ \E answered \in BOOLEAN :
         LET r == req[c]
             rows == participants[r.sess][r.target]
             hit == PermMatches(rows)
             new == [i \in DOMAIN rows |->
                        IF i \in hit THEN ApplyPatch(rows[i], r.patch)
                        ELSE rows[i]]
             out == IF answered THEN UpdateOutcome(Cardinality(hit))
                    ELSE "500"
         IN  /\ participants' = IF answered
                                THEN [participants EXCEPT
                                        ![r.sess][r.target] = new]
                                ELSE participants
             /\ IF out = "ok"
                THEN GwFinish(c, AckOk(c,
                        Cast([r EXCEPT !.payload = <<new[CHOOSE i \in hit : TRUE]>>],
                             "permissions:update", RoomMembers(r.sess))))
                ELSE GwFinish(c, AckFail(c, r, out))
    /\ UNCHANGED <<runner, sessions, nextId, flagDefault, clock, wide, pc, call,
                   messages, conns>>

(* ---------------------------- specification --------------------------- *)

Next ==
    \/ Tick
    \/ \E p \in Procs :
         \/ EnsureSessionParticipant(p)
         \/ CreateInsertSession(p)
         \/ CreateInsertParticipants(p)
         \/ CreateRollback(p)
         \/ JoinLookup(p)
         \/ JoinMembership(p)
         \/ JoinInsert(p)
         \/ KickLookup(p)
         \/ KickUpdate(p)
         \/ PermLookup(p)
         \/ PermUpdate(p)
         \/ UpdateSessionSettings(p)
         \/ Return(p)

Spec == Init /\ [][Next]_vars

SpecSeq == InitSeq /\ [][Next]_vars

\* the role resolution of authenticate, one request at a time
NextRole ==
    \E p \in Procs :
        \/ ResolveRoleMetadata(p)
        \/ ResolveRoleProfile(p)
        \/ Return(p)

SpecRole == InitSeq /\ [][NextRole]_vars

\* one step of the gateway, or of a kick over HTTP
NextGw ==
    \/ \E c \in Conns :
         \/ Connect(c)
         \/ Drop(c)
         \/ Disconnect(c)
         \/ SessionJoinEnsure(c)
         \/ SessionJoinEnter(c)
         \/ SessionJoinRecord(c)
         \/ StoredEventEnsure(c)
         \/ StoredEventInsert(c)
         \/ CodeRunStart(c)
         \/ CodeRunResult(c)
         \/ Relay(c)
         \/ PermissionsLookup(c)
         \/ PermissionsUpdate(c)
         \/ GwReturn(c)
    \/ \E p \in Procs :
         \/ KickLookup(p)
         \/ KickUpdate(p)
         \/ Return(p)

SpecGw == InitGw /\ [][NextGw]_vars

\* as InitGw, with every socket but the first one closed already
InitGwLive ==
    /\ InitGwStore
    /\ messages = {}
    /\ conns = [c \in Conns |->
                  IF c = 1 THEN NoConn
                  ELSE [NoConn EXCEPT !.status = "closed", !.user = "u1"]]
    /\ hpc = [c \in Conns |-> "idle"]
    /\ req = [c \in Conns |-> NoReq]
    /\ tmp = {}
    /\ stepwise = FALSE

\* every awaited call comes back (the store client answers or reports an
\* error, the child process of executeCode is stopped after TIMEOUT_MS),
\* and a handler or request that has its answer returns
GwFairness ==
    /\ \A c \in Conns :
          /\ SF_vars(SessionJoinEnter(c) \/ SessionJoinRecord(c))
          /\ SF_vars(StoredEventInsert(c))
          /\ SF_vars(CodeRunResult(c))
          /\ SF_vars(PermissionsUpdate(c))
          /\ WF_vars(GwReturn(c))
          /\ WF_vars(Drop(c))
    /\ \A p \in Procs : WF_vars(Return(p))

SpecGwLive == InitGwLive /\ [][NextGw]_vars /\ GwFairness

\* as InitGw, with one socket and NumConns handlers of it
InitGwShared ==
    /\ InitGwStore
    /\ messages = {}
    /\ conns = [c \in Conns |->
                  IF c = 1 THEN NoConn
                  ELSE [NoConn EXCEPT !.status = "slot"]]
    /\ hpc = [c \in Conns |-> "idle"]
    /\ req = [c \in Conns |-> NoReq]
    /\ tmp = {}
    /\ stepwise = FALSE

SpecGwShared == InitGwShared /\ [][NextGw]_vars

\* the sockets of u1 and u2 have joined session 1, and executeCode is
\* followed await by await
InitRun ==
    /\ InitGwStore
    /\ messages = {}
    /\ conns = [c \in Conns |->
                  [NoConn EXCEPT !.status = "open",
                                 !.user = IF c = 1 THEN "u1" ELSE "u2",
                                 !.sessionId = 1, !.rooms = {1}]]
    /\ hpc = [c \in Conns |-> "idle"]
    /\ req = [c \in Conns |-> NoReq]
    /\ tmp = {}
    /\ stepwise = TRUE

\* one step of a code:run
NextRun ==
    \E c \in Conns :
        \/ CodeRunStart(c)
        \/ ExecMkdtemp(c)
        \/ ExecWriteFile(c)
        \/ ExecCompile(c)
        \/ ExecRun(c)
        \/ ExecCleanup(c)
        \/ CodeRunResult(c)
        \/ GwReturn(c)

SpecRun == InitRun /\ [][NextRun]_vars

\* the file system answers, a child process ends or is stopped after
\* TIMEOUT_MS, and a handler that has its result returns
RunFairness ==
    \A c \in Conns :
        /\ WF_vars(ExecMkdtemp(c))
        /\ WF_vars(ExecWriteFile(c))
        /\ WF_vars(ExecCompile(c))
        /\ WF_vars(ExecRun(c))
        /\ WF_vars(ExecCleanup(c))
        /\ WF_vars(CodeRunResult(c))
        /\ WF_vars(GwReturn(c))

\* as InitRun, with the socket of u2 closed
InitRunLive ==
    /\ InitGwStore
    /\ messages = {}
    /\ conns = [c \in Conns |->
                  IF c = 1
                  THEN [NoConn EXCEPT !.status = "open", !.user = "u1",
                                      !.sessionId = 1, !.rooms = {1}]
                  ELSE [NoConn EXCEPT !.status = "closed", !.user = "u2",
                                      !.sessionId = 1]]
    /\ hpc = [c \in Conns |-> "idle"]
    /\ req = [c \in Conns |-> NoReq]
    /\ tmp = {}
    /\ stepwise = TRUE

SpecRunLive == InitRunLive /\ [][NextRun]_vars /\ RunFairness

(* ------------------------------- claims -------------------------------- *)

\* the step of request p that ends its call
Finishes(p) == pc[p] # "done" /\ pc'[p] = "done"

StoreUnchanged == sessions' = sessions /\ participants' = participants

HasLiveRow(s, u) ==
    \E i \in DOMAIN participants[s][u] : participants[s][u][i].kicked_at = 0

HasKickedRow(s, u) ==
    \E i \in DOMAIN participants[s][u] : participants[s][u][i].kicked_at # 0

IsOwner(s, u) == sessions[s] # <<>> /\ sessions[s][1].created_by = u

OwnerRow ==
    [role |-> "mentor", kicked_at |-> 0,
     can_edit |-> TRUE, can_share_screen |-> TRUE]

\* C1: ensureParticipant(userId, sessionId) succeeds if and only if the
\* store holds a participant row for the pair whose kicked_at is null; when
\* the store answers that no row exists or that the row is kicked it fails
\* with 403; a read the store does not answer is the 500 of every store
\* failure; and the call never changes the store.
C1_EnsureParticipant ==
    [][\A p \in Procs :
         (Finishes(p) /\ call'[p].op = "ensureParticipant") =>
            LET c == call'[p]
                live == HasLiveRow(c.sess, c.user)
            IN  /\ StoreUnchanged
                /\ c.result = "ok" => live
                /\ c.err = "none" => c.result = (IF live THEN "ok" ELSE "403")
                /\ c.err # "none" => c.result = "500"]_vars

\* a kicked user was refused with 403
C1_Witness ==
    \E p \in Procs :
        /\ pc[p] = "done"
        /\ call[p].op = "ensureParticipant"
        /\ call[p].result = "403"
        /\ HasKickedRow(call[p].sess, call[p].user)

\* C2: after createSession returns successfully the owner has a participant
\* row in the new session with role mentor and both flags true; if the
\* participant insertion failed after the session row was created,
\* createSession fails and the session row does not exist afterward,
\* whatever the compensating delete answered.
C2_CreateSessionRollsBack ==
    \A p \in Procs :
        (pc[p] = "done" /\ call[p].op = "createSession") =>
            LET c == call[p]
            IN  /\ c.result = "ok" => participants[c.sess][c.user] = <<OwnerRow>>
                /\ c.touched >= 2 /\ c.err # "none" =>
                      /\ c.result # "ok"
                      /\ sessions[c.sess] = <<>>

\* C3: in every reachable state every session row present in the store has
\* a participant row for its owner (created_by) with role mentor.
C3_OwnerIsMentorParticipant ==
    \A s \in SessIds :
        sessions[s] # <<>> =>
            \E i \in DOMAIN participants[s][sessions[s][1].created_by] :
                participants[s][sessions[s][1].created_by][i].role = "mentor"

\* C4, as claimed: joinByInviteCode by a user who has a non-kicked row in
\* the session succeeds and changes no row; once a row has kicked_at set,
\* every later joinByInviteCode and ensureParticipant by that user for that
\* session fails with 403; no operation clears kicked_at.  (Stated of the
\* calls whose store reads were answered.)
C4_RejoinAsClaimed ==
    [][/\ \A p \in Procs :
            (/\ Finishes(p)
             /\ pc[p] \in {"idle", "jn_member"}
             /\ call'[p].op \in {"joinByInviteCode", "ensureParticipant"}
             /\ call'[p].err = "none") =>
               LET c == call'[p]
                   s == IF c.op = "joinByInviteCode" THEN c.code ELSE c.sess
               IN  /\ (c.op = "joinByInviteCode" /\ s \in SessIds
                         /\ HasLiveRow(s, c.user))
                          => (c.result = "ok" /\ StoreUnchanged)
                   /\ (s \in SessIds /\ HasKickedRow(s, c.user))
                          => c.result = "403"
       /\ \A s \in SessIds, u \in Users :
            (HasKickedRow(s, u) /\ participants'[s][u] # <<>>)
                => HasKickedRow(s, u)']_vars

IsOpen(s) ==
    sessions[s] # <<>> /\ sessions[s][1].status \notin {"completed", "cancelled"}

\* C4, amended: joinByInviteCode by a user who has a non-kicked row in the
\* session succeeds unless its session lookup finds the session completed
\* or cancelled (then it fails with 400), and no step of it changes a row;
\* while a row has kicked_at set, ensureParticipant by that user fails with
\* 403 and joinByInviteCode fails with 403, or with 400 when its lookup
\* finds the session completed or cancelled, and neither succeeds nor
\* changes a row; no operation clears kicked_at.
C4_Rejoin ==
    [][/\ \A p \in Procs :
            (Finishes(p)
             /\ call'[p].op \in {"joinByInviteCode", "ensureParticipant"}) =>
               LET c == call'[p]
                   join == c.op = "joinByInviteCode"
                   s == IF join THEN c.code ELSE c.sess
                   closed == join /\ pc[p] = "idle"
                   answered == c.err = "none" /\ pc[p] \in {"idle", "jn_member"}
               IN  /\ (join /\ s \in SessIds /\ HasLiveRow(s, c.user))
                          => /\ StoreUnchanged
                             /\ answered =>
                                  IF closed
                                  THEN c.result = "400" /\ ~IsOpen(s)
                                  ELSE c.result = "ok"
                   /\ (s \in SessIds /\ HasKickedRow(s, c.user))
                          => /\ c.result # "ok"
                             /\ StoreUnchanged
                             /\ answered =>
                                  IF closed
                                  THEN c.result = "400" /\ ~IsOpen(s)
                                  ELSE c.result = "403"
       /\ \A s \in SessIds, u \in Users :
            (HasKickedRow(s, u) /\ participants'[s][u] # <<>>)
                => HasKickedRow(s, u)']_vars

\* a kicked user's join was refused with 403
C4_Witness ==
    \E p \in Procs :
        /\ pc[p] = "done"
        /\ call[p].op = "joinByInviteCode"
        /\ call[p].result = "403"
        /\ HasKickedRow(call[p].sess, call[p].user)

\* C5: the store never holds more than one participant row per (session,
\* user) pair, and a join whose insert collides with a concurrent insert
\* of the same pair does not end as a 500.
C5_UniqueAndRecoverable ==
    /\ \A s \in SessIds, u \in Users : Len(participants[s][u]) <= 1
    /\ \A p \in Procs :
          (pc[p] = "done" /\ call[p].op = "joinByInviteCode"
             /\ call[p].err = "conflict") => call[p].result # "500"

\* C6: a refused kick changes nothing: kick by the owner fails with 404
\* when the target has no participant row or is already kicked, with 400
\* when the target is the caller, and with 403 when the caller is not the
\* session owner; in each case every row is unchanged.
C6_RefusedKick ==
    [][\A p \in Procs :
         (pc'[p] # pc[p] /\ call'[p].op = "kick") =>
            LET c == call'[p]
            IN  /\ c.result # "ok" => StoreUnchanged
                /\ (Finishes(p) /\ c.err = "none" /\ sessions[c.sess] # <<>>) =>
                      /\ ~IsOwner(c.sess, c.user) => c.result = "403"
                      /\ (IsOwner(c.sess, c.user) /\ c.target = c.user)
                            => c.result = "400"
                      /\ (IsOwner(c.sess, c.user) /\ c.target # c.user
                            /\ ~HasLiveRow(c.sess, c.target))
                            => c.result = "404"]_vars

\* the kick of a participant kicked at an earlier time was refused with 404
C6_Witness ==
    \E p \in Procs :
        /\ pc[p] = "done"
        /\ call[p].op = "kick"
        /\ call[p].result = "404"
        /\ \E i \in DOMAIN participants[call[p].sess][call[p].target] :
              LET k == participants[call[p].sess][call[p].target][i].kicked_at
              IN  k # 0 /\ k < clock

\* C7, as claimed: in every reachable state a participant row whose
\* kicked_at is set has can_edit = false and can_share_screen = false.
C7_KickedFlagsFalseAsClaimed ==
    \A s \in SessIds, u \in Users :
        \A i \in DOMAIN participants[s][u] :
            participants[s][u][i].kicked_at # 0 =>
                /\ ~participants[s][u][i].can_edit
                /\ ~participants[s][u][i].can_share_screen

\* the step is the update of an updatePermissions call of the owner of s
\* that sets flag f of u's row to true
OwnerGrants(s, u, f) ==
    \E p \in Procs :
        /\ pc[p] = "pm_update"
        /\ Finishes(p)
        /\ call'[p].result = "ok"
        /\ call[p].op = "updatePermissions"
        /\ call[p].sess = s
        /\ call[p].target = u
        /\ IsOwner(s, call[p].user)
        /\ f \in DOMAIN call[p].patch
        /\ call[p].patch[f] = TRUE

\* C7, amended: a successful kick sets both flags false together with
\* kicked_at, and afterwards a flag of a kicked row becomes true only by an
\* updatePermissions of the session owner that supplies it as true.
C7_KickedFlagsFalse ==
    [][\A s \in SessIds, u \in Users :
         \A i \in DOMAIN participants[s][u] \cap DOMAIN participants'[s][u] :
            LET r == participants[s][u][i]
                q == participants'[s][u][i]
            IN  /\ (r.kicked_at = 0 /\ q.kicked_at # 0)
                      => (~q.can_edit /\ ~q.can_share_screen)
                /\ (r.kicked_at # 0 /\ q.kicked_at # 0) =>
                      \A f \in {"can_edit", "can_share_screen"} :
                          (q[f] /\ ~r[f]) => OwnerGrants(s, u, f)]_vars

\* a row was kicked while at least one of its flags was true
C7_Witness ==
    \E p \in Procs :
        /\ pc[p] = "done"
        /\ call[p].op = "kick"
        /\ call[p].result = "ok"
        /\ call[p].changed
        /\ flagDefault
        /\ HasKickedRow(call[p].sess, call[p].target)

\* C8: for kick, updatePermissions and updateSessionSettings, no step of a
\* call whose caller is not the session's created_by changes a session or
\* participant row, whatever role claim the caller carries.
C8_OnlyOwnerChanges ==
    [][\A p \in Procs :
         (/\ pc'[p] # pc[p]
          /\ call'[p].op \in {"kick", "updatePermissions",
                              "updateSessionSettings"}
          /\ ~IsOwner(call'[p].sess, call'[p].user)) => StoreUnchanged]_vars

\* a caller with role mentor who did not create the session was refused
C8_Witness ==
    \E p \in Procs :
        /\ pc[p] = "done"
        /\ call[p].op = "updateSessionSettings"
        /\ call[p].role = "mentor"
        /\ call[p].patch # <<>>
        /\ sessions[call[p].sess] # <<>>
        /\ ~IsOwner(call[p].sess, call[p].user)
        /\ call[p].err = "none"
        /\ call[p].result = "404"

\* C9: updatePermissions and updateSessionSettings called with a patch that
\* supplies no field always fail with 400, and do so before any store read
\* or write.
C9_EmptyPatchRefusedFirst ==
    \A p \in Procs :
        (/\ pc[p] = "done"
         /\ call[p].op \in {"updatePermissions", "updateSessionSettings"}
         /\ DOMAIN call[p].patch = {}
         /\ call[p].err = "none") =>
            /\ call[p].result = "400"
            /\ call[p].touched = 0

\* C10: a successful updatePermissions or updateSessionSettings changes
\* exactly the fields supplied in the patch on exactly the targeted row:
\* every omitted field of that row and every other participant and session
\* row is unchanged.
C10_PatchFrame ==
    [][\A p \in Procs :
         (/\ Finishes(p)
          /\ call'[p].result = "ok"
          /\ call'[p].op \in {"updatePermissions", "updateSessionSettings"}) =>
            LET c == call'[p]
                perm == c.op = "updatePermissions"
                old == IF perm THEN participants[c.sess][c.target]
                       ELSE sessions[c.sess]
                new == IF perm THEN participants'[c.sess][c.target]
                       ELSE sessions'[c.sess]
            IN  /\ IF perm THEN sessions' = sessions
                   ELSE participants' = participants
                /\ \A s \in SessIds :
                      /\ (~perm /\ s # c.sess) => sessions'[s] = sessions[s]
                      /\ perm => \A u \in Users :
                            (s # c.sess \/ u # c.target)
                                => participants'[s][u] = participants[s][u]
                /\ Len(old) = 1 /\ Len(new) = 1
                /\ DOMAIN new[1] = DOMAIN old[1]
                /\ \A f \in DOMAIN old[1] :
                      new[1][f] = (IF f \in DOMAIN c.patch THEN c.patch[f]
                                   ELSE old[1][f])]_vars

\* a patch of can_share_screen alone was applied to a row whose can_edit is
\* true
C10_Witness ==
    \E p \in Procs :
        /\ pc[p] = "done"
        /\ call[p].op = "updatePermissions"
        /\ call[p].result = "ok"
        /\ DOMAIN call[p].patch = {"can_share_screen"}
        /\ call[p].target # call[p].user
        /\ participants[call[p].sess][call[p].target][1].can_edit

\* C11: updateSessionSettings with a non-empty patch on an existing session
\* fails with 403 whenever the caller is not the session's owner, and
\* leaves the session row unchanged.
C11_SettingsNonOwner403 ==
    [][\A p \in Procs :
         (/\ Finishes(p)
          /\ call'[p].op = "updateSessionSettings"
          /\ DOMAIN call'[p].patch # {}
          /\ sessions[call'[p].sess] # <<>>
          /\ ~IsOwner(call'[p].sess, call'[p].user)
          /\ call'[p].err = "none") =>
            /\ call'[p].result = "403"
            /\ sessions' = sessions]_vars

\* C12: joinByInviteCode fails with 404 when no session has the code, with
\* 400 when the session is completed or cancelled, and with 403 when the
\* caller's row is kicked, inserting nothing in these cases; for a caller
\* with no row it inserts exactly one participant row, whose role is mentor
\* if and only if the caller is the session owner, and changes nothing else.
C12_JoinOutcomes ==
    [][\A p \in Procs :
         (pc'[p] # pc[p] /\ call'[p].op = "joinByInviteCode") =>
            LET c == call'[p]
                u == c.user
                found == c.code \in SessIds /\ sessions[c.code] # <<>>
                row == [role |-> IF IsOwner(c.sess, u) THEN "mentor"
                                 ELSE "student",
                        kicked_at |-> 0,
                        can_edit |-> flagDefault,
                        can_share_screen |-> flagDefault]
            IN  /\ (pc[p] = "idle" /\ c.err = "none") =>
                      /\ ~found => (Finishes(p) /\ c.result = "404")
                      /\ (found /\ ~IsOpen(c.code))
                            => (Finishes(p) /\ c.result = "400")
                /\ (pc[p] = "jn_member" /\ c.err = "none"
                      /\ HasKickedRow(c.sess, u))
                      => (Finishes(p) /\ c.result = "403")
                /\ pc[p] # "jn_insert" => StoreUnchanged
                /\ pc[p] = "jn_insert" =>
                      /\ IF c.result = "ok"
                         THEN /\ sessions' = sessions
                              /\ participants[c.sess][u] = <<>>
                              /\ participants' =
                                   [participants EXCEPT ![c.sess][u] = <<row>>]
                         ELSE StoreUnchanged
                      /\ (participants[c.sess][u] = <<>>
                            /\ sessions[c.sess] # <<>> /\ c.err # "store")
                            => c.result = "ok"]_vars

\* the session owner, having no row, joined and got the role mentor
C12_Witness ==
    \E p \in Procs :
        /\ pc[p] = "done"
        /\ call[p].op = "joinByInviteCode"
        /\ call[p].result = "ok"
        /\ call[p].changed
        /\ IsOwner(call[p].sess, call[p].user)
        /\ participants[call[p].sess][call[p].user][1].role = "mentor"

(* ---------------------- claims about the gateway ---------------------- *)

\* socket c starts to handle an event
Starts(c) == hpc[c] = "idle" /\ hpc'[c] # "idle"

\* the handler of socket c comes to its end
Ends(c) == hpc[c] # "done" /\ hpc'[c] = "done"

\* C13: once user B has a kicked row in session S, a session:join for S
\* on any of B's connections ends with the acknowledgment ok:false and a
\* session:error to that connection; the connection is not added to room
\* S, its session id is not set, and no session:joined is emitted.
C13_KickedJoinRefused ==
    [][\A c \in Conns :
         (/\ Starts(c)
          /\ req'[c].ev = "session:join"
          /\ req'[c].sess \in SessIds
          /\ HasKickedRow(req'[c].sess, conns[c].user)) =>
            /\ hpc'[c] = "done"
            /\ req'[c].ack = "fail"
            /\ req'[c].acks = 1
            /\ req'[c].error = {c}
            /\ req'[c].joined = {}
            /\ req'[c].cast = ""
            /\ conns' = conns]_vars

\* both sockets belong to a kicked user, and a join of one was refused 403
C13_Witness ==
    \E c \in Conns :
        /\ hpc[c] = "done"
        /\ req[c].ev = "session:join"
        /\ req[c].result = "403"
        /\ HasKickedRow(req[c].sess, conns[c].user)
        /\ \A d \in Conns : conns[d].status = "open"
                              /\ conns[d].user = conns[c].user

\* the connections whose current session id is s
InRoom(s) ==
    {c \in Conns : conns[c].status = "open" /\ conns[c].sessionId = s}

\* C14: a handled chat:message is delivered to every connection in the
\* sender's room, the sender included, each relayed signaling event to
\* every connection in the sender's room except the sender, and neither
\* to a connection outside that room.
C14_Delivery ==
    \A c \in Conns :
        (hpc[c] = "done" /\ req[c].cast # "") =>
            /\ req[c].ev = "chat:message" => req[c].to = InRoom(req[c].sess)
            /\ req[c].ev \in RelayEvents
                  => req[c].to = InRoom(req[c].sess) \ {c}

\* C15: for chat:message and code:update the event is sent to the room
\* only after its row was written; when the write fails no connection
\* receives the event and the sender is acknowledged ok:false; every such
\* broadcast has its row in the store.
C15_StoredBeforeSent ==
    \A c \in Conns :
        (hpc[c] = "done" /\ req[c].ev \in StoredEvents) =>
            /\ req[c].cast # "" =>
                  /\ req[c].wrote
                  /\ StoredRow(req[c].ev, req[c].sess, conns[c].user)
                        \in messages
            /\ ~req[c].wrote =>
                  /\ req[c].cast = "" /\ req[c].to = {}
                  /\ req[c].ack = "fail"

\* a stored chat message reached the sender and another connection
C15_Witness ==
    \E c \in Conns :
        /\ hpc[c] = "done"
        /\ req[c].ev = "chat:message"
        /\ req[c].cast = "chat:message"
        /\ c \in req[c].to
        /\ req[c].to # {c}
        /\ StoredRow(req[c].ev, req[c].sess, conns[c].user) \in messages

\* C16: chat:message, code:update, code:run and permissions:update, when
\* handled for a sender who has been kicked from its current session,
\* send nothing to the room and are acknowledged ok:false.
C16_KickedSenderRefused ==
    [][\A c \in Conns :
         (/\ Starts(c)
          /\ req'[c].ev \in StoredEvents \cup {"code:run",
                                               "permissions:update"}
          /\ req'[c].sess \in SessIds
          /\ HasKickedRow(req'[c].sess, conns[c].user)) =>
            /\ hpc'[c] = "done"
            /\ req'[c].ack = "fail"
            /\ req'[c].cast = ""]_vars

\* C17: a connection is a member of at most one room: it receives the
\* events of the session recorded as its current session id and of no
\* session it joined earlier.
C17_OneRoom ==
    /\ \A c \in Conns : Cardinality(conns[c].rooms) <= 1
    /\ \A c \in Conns :
          (hpc[c] = "done" /\ req[c].cast # "") =>
              \A d \in req[c].to : conns[d].sessionId = req[c].sess

C19_Authentication ==
    /\ \A c \in Conns :
          conns[c].status = "rejected" =>
             /\ NoToken(conns[c].token)
                   => conns[c].reason = "Missing authentication token"
             /\ (~NoToken(conns[c].token)
                   /\ conns[c].answer \in {"error", "nouser"})
                   => conns[c].reason
                         = "Invalid or expired authentication token"
    /\ \A c \in Conns :
          conns[c].user \notin Users =>
             /\ conns[c].status \in {"new", "rejected"}
             /\ hpc[c] = "idle" /\ req[c] = NoReq
             /\ conns[c].rooms = {} /\ conns[c].sessionId = 0
    /\ \A c \in Conns : conns[c].status = "open" => conns[c].user \in Users
    /\ \A m \in messages : m.author_id \in Users

\* a handshake whose token the provider maps to no user was rejected
C19_Witness ==
    \E c \in Conns :
        /\ conns[c].status = "rejected"
        /\ conns[c].token = {"t1"}
        /\ conns[c].answer = "nouser"
        /\ \E d \in Conns : conns[d].status = "open"

AckedEvents ==
    StoredEvents \cup {"session:join", "code:run", "permissions:update"}

C21_NotJoinedRefused ==
    [][/\ \A c \in Conns :
            (Starts(c) /\ conns[Sock(c)].sessionId = 0
               /\ req'[c].ev \in AckedEvents \ {"session:join"}) =>
               /\ hpc'[c] = "done"
               /\ req'[c].ack = "fail" /\ req'[c].acks = 1
               /\ req'[c].cast = "" /\ req'[c].to = {}
               /\ ~req'[c].wrote
               /\ messages' = messages /\ StoreUnchanged
       /\ \A c \in Conns :
            (Starts(c) /\ conns[Sock(c)].sessionId = 0
               /\ req'[c].ev \in RelayEvents) =>
               /\ hpc'[c] = "done"
               /\ req'[c].cast = "" /\ req'[c].to = {}
               /\ req'[c].error = {} /\ req'[c].joined = {}
               /\ req'[c].acks = 0
               /\ messages' = messages /\ StoreUnchanged
       /\ \A k \in Conns :
            conns'[k].sessionId # conns[k].sessionId =>
               \E c \in Conns :
                  /\ Sock(c) = k
                  /\ hpc[c] = "sj_record" /\ Ends(c)
                  /\ req'[c].ack = "ok"]_vars

\* a chat:message was refused on a socket whose session:join still awaits
\* its admission check
C21_Witness ==
    \E c, d \in Conns :
        /\ c # d /\ Sock(c) = Sock(d)
        /\ hpc[d] = "sj_join"
        /\ hpc[c] = "done"
        /\ req[c].ev = "chat:message"
        /\ req[c].result = "400"
        /\ conns[Sock(c)].sessionId = 0

\* C22: a permissions:update changes a participant row and is sent to the
\* room only when the sender is the creator of the sender's current
\* session; the event is sent in the step in which the store update
\* succeeded and carries the can_edit and can_share_screen the update
\* stored; a request of another sender changes no row and sends nothing.
C22_OwnerOnlyPermissions ==
    [][\A c \in Conns :
         (hpc[c] # hpc'[c] /\ req'[c].ev = "permissions:update") =>
            LET r == req'[c]
                u == conns[Sock(c)].user
            IN  /\ (participants' # participants \/ r.cast # "") =>
                      /\ IsOwner(r.sess, u)
                      /\ conns[Sock(c)].sessionId = r.sess
                      /\ hpc[c] = "pu_update"
                /\ r.cast # "" =>
                      /\ r.ack = "ok"
                      /\ Len(participants'[r.sess][r.target]) = 1
                      /\ r.payload[1] = participants'[r.sess][r.target][1]
                      /\ participants'[r.sess][r.target][1]
                            = ApplyPatch(participants[r.sess][r.target][1],
                                         r.patch)
                /\ (r.sess # 0 /\ ~IsOwner(r.sess, u)) =>
                      /\ hpc'[c] = "done"
                      /\ participants' = participants
                      /\ r.cast = "" /\ r.ack = "fail"]_vars

\* the owner's permissions:update gave can_edit back to a kicked row, and
\* the event sent to the room carries the stored flags
C22_Witness ==
    \E c \in Conns :
        /\ hpc[c] = "done"
        /\ req[c].ev = "permissions:update"
        /\ req[c].cast = "permissions:update"
        /\ req[c].to # {}
        /\ req[c].target = "u2"
        /\ req[c].payload[1].can_edit
        /\ req[c].payload[1].kicked_at # 0
        /\ participants[req[c].sess]["u2"][1].can_edit

(* --------------------- claims about the code runner -------------------- *)

\* executeCode returns in this step of the handler of socket c
Returns(c) == ~req[c].run.returned /\ req'[c].run.returned

\* C23: for every supported language and on every exit path of
\* executeCode (a run that succeeds, a toolchain that exits with an error,
\* a timeout, a fault while the source file is written into the new
\* directory), the directory the call has made does not exist any more
\* when the call returns.
C23_DirectoryRemoved ==
    [][\A c \in Conns :
         Returns(c) =>
            (req'[c].run.dir = 0 \/ req'[c].run.dir \notin tmp')]_vars

\* C24: executeCode with a language that, lower-cased, is no case of the
\* switch returns empty output and a non-empty error, in its first step,
\* having made no directory and spawned no child process.
C24_UnsupportedLanguage ==
    [][\A c \in Conns :
         (Returns(c) /\ req'[c].run.language \notin SupportedLanguages) =>
            /\ Starts(c)
            /\ req'[c].run.output = ""
            /\ req'[c].run.error # {}
            /\ req'[c].run.dir = 0
            /\ req'[c].run.spawned = 0
            /\ req'[c].run.child = "none"
            /\ tmp' = tmp]_vars

\* a code:run in a language without executor has its result
C24_Witness ==
    \E c \in Conns :
        /\ hpc[c] = "cr_exec"
        /\ req[c].run.returned
        /\ req[c].run.language = "ruby"
        /\ req[c].run.error = {"unsupported"}

\* C25: executeCode never throws: whatever fails inside it (language
\* without executor, toolchain exit, timeout, output over the buffer,
\* directory or file creation, cleanup), the call ends by returning an
\* ExecutionResult, whose error is non-empty whenever the toolchain failed
\* (the captured stderr, else the message of the invocation); so a
\* code:run that has passed the checks of the handler in a joined room is
\* acknowledged ok:true and its result sent to the room.
C25_FailuresAreData ==
    [][/\ \A c \in Conns :
            (hpc[c] \in ExecLabels /\ hpc'[c] \notin ExecLabels) =>
               hpc'[c] = "cr_exec" /\ Returns(c)
       /\ \A c \in Conns :
            Returns(c) =>
               LET run == req'[c].run
               IN  /\ run.exit \in {"nonzero", "timeout", "overflow"} =>
                         /\ run.error # {}
                         /\ run.fault = "" =>
                               run.error \in {{"stderr"}, {"message"}}
                   /\ run.fault \in {"mkdtemp", "writeFile"} =>
                         run.error = {"message"}
                   /\ run.language \notin SupportedLanguages =>
                         run.error # {}
       /\ \A c \in Conns :
            (Ends(c) /\ req'[c].ev = "code:run") =>
               IF hpc[c] = "idle"
               THEN req'[c].ack = "fail"
                      /\ req'[c].result \in {"400", "error"}
               ELSE /\ hpc[c] = "cr_exec"
                    /\ req[c].run.returned
                    /\ req'[c].ack = "ok" /\ req'[c].acks = 1
                    /\ req'[c].cast = "code:run-result"
                    /\ req'[c].to = RoomMembers(req[c].sess)
                    /\ req'[c].error = {}]_vars

\* a run that timed out without stderr was acknowledged and its result,
\* with the message as error, sent to both sockets of the room
C25_Witness ==
    \E c \in Conns :
        /\ hpc[c] = "done"
        /\ req[c].ev = "code:run"
        /\ req[c].ack = "ok"
        /\ req[c].to = Conns
        /\ req[c].run.exit = "timeout"
        /\ req[c].run.error = {"message"}

\* C26: every call of executeCode ends: a child process still running
\* when TIMEOUT_MS has passed is stopped and the call then returns a
\* result whose error is not null; executeJava starts java only after
\* javac has ended with exit code 0.
C26_RunTerminates ==
    /\ [](\A c \in Conns :
            LET run == req[c].run
            IN  /\ run.returned => run.child # "running"
                /\ run.exit = "timeout" => run.child = "killed"
                /\ (run.returned /\ run.exit = "timeout") => run.error # {}
                /\ run.executor = "executeJava" =>
                      /\ run.spawned = 2 <=> run.compiled
                      /\ hpc[c] = "ex_run" => run.compiled
                /\ run.executor # "executeJava" => run.spawned <= 1)
    /\ \A c \in Conns :
          (hpc[c] \in ExecLabels) ~> (hpc[c] = "cr_exec" /\ req[c].run.returned)

\* executeJava has returned after javac succeeded and java was stopped
\* at the timeout
C26_Witness ==
    \E c \in Conns :
        /\ req[c].run.returned
        /\ req[c].run.executor = "executeJava"
        /\ req[c].run.compiled
        /\ req[c].run.exit = "timeout"
        /\ req[c].run.child = "killed"
        /\ req[c].run.dir \notin tmp

(* ------------------------ claims about the roles ----------------------- *)

\* the first valid role in the order user_metadata, app_metadata, profile
FirstValidRole(roles) ==
    IF IsUserRole(roles.user_metadata) THEN RoleResult(roles.user_metadata)
    ELSE IF IsUserRole(roles.app_metadata) THEN RoleResult(roles.app_metadata)
    ELSE RoleResult(roles.profile)

\* C27: role resolution returns the first valid role (mentor or student)
\* in the order primary metadata claim, secondary metadata claim, profile
\* store, and no role only when none of the three holds a valid role.
C27_RolePrecedence ==
    \A p \in Procs :
        (pc[p] = "done" /\ call[p].op = "resolveRole"
           /\ call[p].err = "none") =>
            call[p].result = FirstValidRole(call[p].roles)

(* ------------------- claims about kicks and races ---------------------- *)

\* C28: every socket that is a member of room S belongs to a user with a
\* participant row of S that is not kicked, and an event sent to room S is
\* delivered to no socket of a user kicked from S.
C28_MembersAreParticipants ==
    /\ \A c \in Conns :
          conns[c].status = "open" =>
             \A s \in conns[c].rooms : HasLiveRow(s, conns[c].user)
    /\ \A c \in Conns :
          (hpc[c] = "done" /\ req[c].cast # "") =>
             \A d \in req[c].to : ~HasKickedRow(req[c].sess, conns[d].user)

\* C29: a message or code snapshot row is inserted only while its author
\* has a participant row of the session that is not kicked: a kick that
\* has completed before the insert prevents the insert.
C29_InsertOnlyWhileParticipant ==
    [][\A row \in messages' \ messages :
          HasLiveRow(row.session_id, row.author_id)]_vars

\* C30: joinByInviteCode inserts no participant row while the status of
\* the session is completed or cancelled: a change of the status that has
\* completed before the insert prevents the insert.
C30_NoJoinAfterClose ==
    [][\A p \in Procs :
         (/\ pc[p] = "jn_insert"
          /\ participants'[call[p].sess][call[p].user]
                # participants[call[p].sess][call[p].user]) =>
            sessions[call[p].sess][1].status
               \notin {"completed", "cancelled"}]_vars

(* ------------- claims about joins in flight on one socket -------------- *)

\* C31: with several session:join handlers of one connection in flight,
\* an open connection whose current session id is S is a member of room S;
\* session:joined for S is sent to the connection only in a step after
\* the one that added it to room S, and together with the recording of S
\* as its current session id; the current session id changes only in the
\* step of a session:join that is acknowledged ok, to the session joined.
C31_JoinedIsMember ==
    [][/\ \A k \in Conns :
            (conns'[k].status = "open" /\ conns'[k].sessionId # 0) =>
               conns'[k].sessionId \in conns'[k].rooms
       /\ \A c \in Conns :
            (Ends(c) /\ req'[c].joined # {}) =>
               /\ req'[c].joined = {Sock(c)}
               /\ req'[c].sess \in conns[Sock(c)].rooms
               /\ conns'[Sock(c)].sessionId = req'[c].sess
       /\ \A k \in Conns :
            conns'[k].sessionId # conns[k].sessionId =>
               \E c \in Conns :
                  /\ Sock(c) = k
                  /\ req[c].ev = "session:join"
                  /\ Ends(c)
                  /\ req'[c].ack = "ok"
                  /\ conns'[k].sessionId = req[c].sess]_vars

\* two joins of one open socket to different sessions overlap: the first
\* is acknowledged while the second, already in its room, has not yet
\* recorded its session
C31_Witness ==
    \E c, d \in Conns :
        /\ c # d /\ Sock(c) = Sock(d)
        /\ conns[Sock(c)].status = "open"
        /\ hpc[c] = "done" /\ req[c].ev = "session:join"
        /\ req[c].joined = {Sock(c)}
        /\ hpc[d] = "sj_record" /\ req[d].sess # req[c].sess
        /\ conns[Sock(c)].sessionId = req[c].sess
        /\ conns[Sock(c)].rooms = {req[c].sess, req[d].sess}

\* C32: a session:join without a sessionId, or for a session of which
\* the user has no participant row that is not kicked, or whose read the
\* store does not answer, on a connection that is in room A, is refused
\* in the step that starts it and changes neither the rooms nor the
\* current session id of any connection; an event of the connection
\* handled afterwards is handled for room A.
C32_FailedJoinKeepsRoom ==
    [][/\ \A c \in Conns :
            (/\ Starts(c) /\ req'[c].ev = "session:join"
             /\ conns[Sock(c)].sessionId # 0
             /\ conns[Sock(c)].sessionId \in conns[Sock(c)].rooms
             /\ \/ req'[c].sess = 0
                \/ ~HasLiveRow(req'[c].sess, conns[Sock(c)].user)) =>
               /\ hpc'[c] = "done"
               /\ req'[c].ack = "fail"
               /\ req'[c].joined = {}
               /\ conns' = conns
       /\ \A c \in Conns :
            (req'[c].ev = "session:join" /\ req'[c].ack = "fail"
               /\ hpc'[c] # hpc[c]) =>
               /\ Starts(c) /\ hpc'[c] = "done"
               /\ req'[c].result \in {"400", "403", "500"}
               /\ conns' = conns
       /\ \A c \in Conns :
            (Starts(c) /\ req'[c].ev # "session:join") =>
               req'[c].sess = conns[Sock(c)].sessionId]_vars

\* a socket in room A was refused the join of another session, of which
\* its user is no participant, while a message of it for room A awaits
\* its insert
C32_Witness ==
    \E c, d \in Conns :
        /\ c # d /\ Sock(c) = Sock(d)
        /\ conns[Sock(c)].status = "open"
        /\ conns[Sock(c)].sessionId # 0
        /\ conns[Sock(c)].sessionId \in conns[Sock(c)].rooms
        /\ hpc[c] = "done" /\ req[c].ev = "session:join"
        /\ req[c].result = "403"
        /\ req[c].sess \in SessIds \ conns[Sock(c)].rooms
        /\ participants[req[c].sess][conns[Sock(c)].user] = <<>>
        /\ hpc[d] = "se_insert"
        /\ req[d].sess = conns[Sock(c)].sessionId

=============================================================================
